---- MODULE Spec2Model ----
(***************************************************************************)
(* Bots-Hub (src/app.py): a Flask listing site for Discord bots.           *)
(* The model covers the request handlers that read or write the listing    *)
(* table (Bot), the per-browser session and the in-memory cooldown map     *)
(* user_votes, and the permission functions is_admin / is_bot_owner /      *)
(* can_edit_bot / can_delete_bot.                                          *)
(*                                                                         *)
(* Python dicts (session, user_votes) and the Bot table are functions      *)
(* whose DOMAIN is the set of keys present.  Times are seconds.            *)
(*                                                                         *)
(* Spec     : every handler runs from request to response, one at a time.  *)
(* ConcSpec : upvote_bot runs in request threads whose statements          *)
(*            interleave.                                                  *)
(* AuthSpec : the permission functions called on any row and any user.     *)
(***************************************************************************)
EXTENDS Integers, Sequences, FiniteSets, TLC

VARIABLES
    clock,       \* what datetime.now() returns, in seconds
    session,     \* client -> session["user"], for the clients that hold the key
    bots,        \* Bot table: bot id -> row
    user_votes,  \* (user_id, bot_id) -> last_upvote_datetime
    resp,        \* the response returned last
    nreq,        \* requests received so far
    admitted,    \* history: <<user_id, bot_id, now>> of every upvote answered 200
    upvoted,     \* history: bot id -> upvotes answered 200 since the row was added
    thr,         \* request threads running upvote_bot step by step
    call         \* a direct call of the permission functions and what it returned

vars == <<clock, session, bots, user_votes, resp, nreq, admitted, upvoted, thr, call>>

-----------------------------------------------------------------------------
(* Bounded input domains *)

UserIds == {"A", "U1", "U2"}
BotIds  == {"B1", "B2"}
\* browsers; a browser's session cookie names the user it last logged in as
Clients == {"c1"}
Threads == {"t1", "t2"}

\* request instants: T, T+5h59m, T+6h, T+6h+1s
Instants == {0, 21540, 21600, 21601}

\* requests a run receives
MaxRequests == 5

\* a key the request form does not hold
Absent == "<absent>"
\* Python None where a string is expected
None == "<None>"
\* Python None where an object (bot row, user dict) is expected
NoObject == [none |-> TRUE]

-----------------------------------------------------------------------------
(* Configuration *)

SITE_ADMIN_ID == "A"
COOLDOWN_HOURS == 6

\* timedelta(hours=COOLDOWN_HOURS)
Window == COOLDOWN_HOURS * 3600

-----------------------------------------------------------------------------
(* dict helpers *)

Put(d, k, v) == [x \in DOMAIN d \cup {k} |-> IF x = k THEN v ELSE d[x]]
Drop(d, k) == [x \in DOMAIN d \ {k} |-> d[x]]
EmptyDict == [x \in {} |-> 0]

\* str(x) for the ids of this program: session ids, owner_id and URL ids are
\* already str, which str() returns as they are; str(None) is "None"
str(x) == IF x = None THEN "None" ELSE x

\* the user dict Discord returns for an id
User(u) == [id |-> u, username |-> u]

-----------------------------------------------------------------------------
(* Permission functions *)

is_admin(user) ==
    IF user = NoObject THEN FALSE
    ELSE str(user.id) = SITE_ADMIN_ID

is_bot_owner(bot, user) ==
    IF user = NoObject \/ bot = NoObject THEN FALSE
    ELSE str(bot.owner_id) = str(user.id)

\* variants: any logged-in user may edit; only the owner may delete
can_edit_bot_anyuser(bot, user) == user # NoObject
can_delete_bot_owneronly(bot, user) == is_bot_owner(bot, user)

can_edit_bot(bot, user) == is_admin(user) \/ is_bot_owner(bot, user)

can_delete_bot(bot, user) == is_admin(user) \/ is_bot_owner(bot, user)

-----------------------------------------------------------------------------
(* Cooldown arithmetic *)

\* variants of the cooldown test: the boundary taken as inside the window,
\* and the window counted in minutes
InCooldown_inclusive(last_vote, now) == now - last_vote <= Window
InCooldown_minutes(last_vote, now) == now - last_vote < COOLDOWN_HOURS * 60

\* now - last_vote < timedelta(hours=COOLDOWN_HOURS)
InCooldown(last_vote, now) == now - last_vote < Window

\* last_vote + timedelta(hours=COOLDOWN_HOURS) - now
cooldown_left(last_vote, now) == last_vote + Window - now

\* timedelta.seconds: the seconds within the day, the days are held apart
seconds(td) == td % 86400

\* variant: minutes taken as remainder % 60
cooldown_msg_mod(left) ==
    [hours |-> seconds(left) \div 3600, minutes |-> (seconds(left) % 3600) % 60]

\* hours, remainder = divmod(cooldown_left.seconds, 3600); minutes = remainder // 60
cooldown_msg(left) ==
    LET hours     == seconds(left) \div 3600
        remainder == seconds(left) % 3600
        minutes   == remainder \div 60
    IN  [hours |-> hours, minutes |-> minutes]

-----------------------------------------------------------------------------
(* Request forms *)

\* request.form.get(k, default)
FormGet(form, k, default) == IF form[k] = Absent THEN default ELSE form[k]

\* the decimal strings int() accepts among the submitted values
IntOf == [s \in {"0", "5"} |-> IF s = "0" THEN 0 ELSE 5]

\* int(x) raises ValueError
RaisesValueError(x) == x \notin DOMAIN IntOf

Forms ==
    { [description |-> "d1", short_description |-> "s1", prefix |-> "?",
       website |-> "w1", support_server |-> "g1", invite_link |-> "i1",
       tags |-> <<"Music", "Fun">>, certified |-> TRUE, server_count |-> "5"],
      [description |-> "d2", short_description |-> Absent, prefix |-> Absent,
       website |-> Absent, support_server |-> Absent, invite_link |-> Absent,
       tags |-> <<>>, certified |-> FALSE, server_count |-> Absent],
      [description |-> "d2", short_description |-> Absent, prefix |-> Absent,
       website |-> Absent, support_server |-> Absent, invite_link |-> Absent,
       tags |-> <<>>, certified |-> TRUE, server_count |-> "many"] }

Methods == {"GET", "POST"}

\* what GET https://discord.com/api/v10/users/<bot_id> answers
DiscordAnswers == {"bot", "user", "error"}

-----------------------------------------------------------------------------
(* Responses: the status and what the body or the flash message says *)

NoMsg == [hours |-> -1, minutes |-> -1]

Response(status, outcome) ==
    [status |-> status, outcome |-> outcome, msg |-> NoMsg, upvotes |-> -1,
     can_vote |-> TRUE, can_edit |-> FALSE, can_delete |-> FALSE]

\* session.get("user")
SessionUser(c) == IF c \in DOMAIN session THEN session[c] ELSE NoObject

\* Bot.query.filter_by(id=bot_id).first()
FindBot(b) == IF b \in DOMAIN bots THEN bots[b] ELSE NoObject

IdleThread == [pc |-> "idle"]
NoCall == [fn |-> "none"]

-----------------------------------------------------------------------------
(* Initial state: empty table, nobody logged in, no votes *)

Init ==
    /\ clock = 0
    /\ session = EmptyDict
    /\ bots = EmptyDict
    /\ user_votes = EmptyDict
    /\ resp = Response(0, "none")
    /\ nreq = 0
    /\ admitted = {}
    /\ upvoted = [b \in BotIds |-> 0]
    /\ thr = [t \in Threads |-> IdleThread]
    /\ call = NoCall

\* time passes
Tick ==
    /\ \E t \in Instants : t > clock /\ clock' = t
    /\ UNCHANGED <<session, bots, user_votes, resp, nreq, admitted, upvoted, thr, call>>

\* a request arrives
Receive == nreq < MaxRequests /\ nreq' = nreq + 1

-----------------------------------------------------------------------------
(* Handlers, each run from request to response *)

\* /callback: the OAuth2 exchange succeeds for user u, or fails
callback(c, u, ok) ==
    /\ Receive
    /\ session' = IF ok THEN Put(session, c, User(u)) ELSE session
    /\ resp' = Response(302, IF ok THEN "logged_in" ELSE "auth_failed")
    /\ UNCHANGED <<clock, bots, user_votes, admitted, upvoted, thr, call>>

\* /logout
logout(c) ==
    /\ Receive
    /\ session' = Drop(session, c)
    /\ resp' = Response(302, "logged_out")
    /\ UNCHANGED <<clock, bots, user_votes, admitted, upvoted, thr, call>>

\* the test of lines 131-133 and 314:
\* last_vote and now - last_vote < timedelta(hours=COOLDOWN_HOURS)
Rejects(votes, key, now) == key \in DOMAIN votes /\ InCooldown(votes[key], now)

\* /bot/<bot_id>
bot_detail(c, b) ==
    LET bot  == FindBot(b)
        user == SessionUser(c)
        now  == clock
        key  == <<str(user.id), str(b)>>
        cooling == user # NoObject /\ Rejects(user_votes, key, now)
    IN  /\ Receive
        /\ resp' =
             IF bot = NoObject
             THEN Response(302, "not_found")
             ELSE [Response(200, "bot_detail") EXCEPT
                     !.can_vote = ~cooling,
                     !.msg = IF cooling
                             THEN cooldown_msg(cooldown_left(user_votes[key], now))
                             ELSE NoMsg,
                     !.can_edit = can_edit_bot(bot, user),
                     !.can_delete = can_delete_bot(bot, user),
                     !.upvotes = bot.upvotes]
        /\ UNCHANGED <<clock, session, bots, user_votes, admitted, upvoted, thr, call>>

\* the row add_bot inserts
NewBot(b, form, user) ==
    [name |-> b,
     description |-> FormGet(form, "description", None),
     short_description |-> FormGet(form, "short_description", None),
     prefix |-> FormGet(form, "prefix", "!"),
     website |-> FormGet(form, "website", ""),
     support_server |-> FormGet(form, "support_server", ""),
     invite_link |-> FormGet(form, "invite_link", ""),
     tags |-> form.tags,
     owner_id |-> user.id,
     owner_name |-> user.username,
     upvotes |-> 0,
     server_count |-> 0,
     certified |-> FALSE]

\* /add-bot; the form is read, and Discord asked, on a POST for an unlisted id
add_bot(c, b, method) ==
    /\ Receive
    /\ \/ /\ c \notin DOMAIN session
          /\ resp' = Response(302, "login_required")
          /\ UNCHANGED <<bots, upvoted>>
       \/ /\ c \in DOMAIN session /\ method = "GET"
          /\ resp' = Response(200, "add_form")
          /\ UNCHANGED <<bots, upvoted>>
       \/ /\ c \in DOMAIN session /\ method = "POST" /\ b \in DOMAIN bots
          /\ resp' = Response(302, "already_listed")
          /\ UNCHANGED <<bots, upvoted>>
       \/ /\ c \in DOMAIN session /\ method = "POST" /\ b \notin DOMAIN bots
          /\ \E discord \in DiscordAnswers :
               IF discord = "error"
               THEN /\ resp' = Response(302, "invalid_bot_id")
                    /\ UNCHANGED <<bots, upvoted>>
               ELSE IF discord # "bot"
               THEN /\ resp' = Response(302, "not_a_bot")
                    /\ UNCHANGED <<bots, upvoted>>
               ELSE \E form \in Forms :
                    /\ bots' = Put(bots, b, NewBot(b, form, session[c]))
                    /\ upvoted' = [upvoted EXCEPT ![b] = 0]
                    /\ resp' = Response(302, "added")
    /\ UNCHANGED <<clock, session, user_votes, admitted, thr, call>>

\* variant: the administrator-only fields are taken from every editor's form
EditedBot_nocheck(bot, form, user) ==
    [bot EXCEPT
        !.description = FormGet(form, "description", None),
        !.short_description = FormGet(form, "short_description", None),
        !.prefix = FormGet(form, "prefix", "!"),
        !.website = FormGet(form, "website", ""),
        !.support_server = FormGet(form, "support_server", ""),
        !.invite_link = FormGet(form, "invite_link", ""),
        !.tags = form.tags,
        !.certified = form.certified,
        !.server_count = IF form.server_count \in DOMAIN IntOf
                         THEN IntOf[form.server_count] ELSE 0]

\* the assignments of edit_bot's POST branch
EditedBot(bot, form, user) ==
    LET ordinary == [bot EXCEPT
            !.description = FormGet(form, "description", None),
            !.short_description = FormGet(form, "short_description", None),
            !.prefix = FormGet(form, "prefix", "!"),
            !.website = FormGet(form, "website", ""),
            !.support_server = FormGet(form, "support_server", ""),
            !.invite_link = FormGet(form, "invite_link", ""),
            !.tags = form.tags]
    IN  IF is_admin(user)
        THEN [ordinary EXCEPT
                !.certified = form.certified,
                !.server_count = IF form.server_count = Absent THEN 0
                                 ELSE IntOf[form.server_count]]
        ELSE ordinary

\* /edit-bot/<bot_id>
edit_bot(c, b, form, method) ==
    LET bot  == FindBot(b)
        user == SessionUser(c)
        outcome ==
            IF c \notin DOMAIN session THEN "login_required"
            ELSE IF bot = NoObject THEN "not_found"
            ELSE IF ~can_edit_bot(bot, user) THEN "forbidden"
            ELSE IF method = "GET" THEN "edit_form"
            ELSE IF is_admin(user) /\ form.server_count # Absent
                    /\ RaisesValueError(form.server_count) THEN "error"
            ELSE "updated"
    IN  /\ Receive
        /\ bots' = IF outcome = "updated"
                   THEN [bots EXCEPT ![b] = EditedBot(bot, form, user)]
                   ELSE bots
        /\ resp' = Response(CASE outcome = "edit_form" -> 200
                              [] outcome = "error" -> 500
                              [] OTHER -> 302, outcome)
        /\ UNCHANGED <<clock, session, user_votes, admitted, upvoted, thr, call>>

\* /delete-bot/<bot_id>
delete_bot(c, b) ==
    LET bot  == FindBot(b)
        user == SessionUser(c)
        outcome ==
            IF c \notin DOMAIN session THEN "login_required"
            ELSE IF bot = NoObject THEN "not_found"
            ELSE IF ~can_delete_bot(bot, user) THEN "forbidden"
            ELSE "deleted"
    IN  /\ Receive
        /\ bots' = IF outcome = "deleted" THEN Drop(bots, b) ELSE bots
        /\ resp' = Response(302, outcome)
        /\ UNCHANGED <<clock, session, user_votes, admitted, upvoted, thr, call>>

\* variant: the map is rebuilt with the one entry
RecordVote_reset(votes, key, now) == [x \in {key} |-> now]

\* line 322: user_votes[key] = now
RecordVote(votes, key, now) == Put(votes, key, now)

\* /upvote/<bot_id>
upvote_bot(c, b) ==
    LET bot == FindBot(b)
        now == clock
        key == <<str(session[c].id), str(b)>>
    IN  /\ Receive
        /\ IF c \notin DOMAIN session
           THEN /\ resp' = Response(401, "login_required")
                /\ UNCHANGED <<bots, user_votes, admitted, upvoted>>
           ELSE IF bot = NoObject
           THEN /\ resp' = Response(404, "not_found")
                /\ UNCHANGED <<bots, user_votes, admitted, upvoted>>
           ELSE IF Rejects(user_votes, key, now)
           THEN /\ resp' = [Response(403, "cooldown") EXCEPT
                              !.msg = cooldown_msg(cooldown_left(user_votes[key], now))]
                /\ UNCHANGED <<bots, user_votes, admitted, upvoted>>
           ELSE /\ bots' = [bots EXCEPT ![b].upvotes = @ + 1]
                /\ user_votes' = RecordVote(user_votes, key, now)
                /\ resp' = [Response(200, "upvoted") EXCEPT !.upvotes = bot.upvotes + 1]
                /\ admitted' = admitted \cup {<<key[1], key[2], now>>}
                /\ upvoted' = [upvoted EXCEPT ![b] = @ + 1]
        /\ UNCHANGED <<clock, session, thr, call>>

Next ==
    \/ Tick
    \/ \E c \in Clients, u \in UserIds, ok \in BOOLEAN : callback(c, u, ok)
    \/ \E c \in Clients : logout(c)
    \/ \E c \in Clients, b \in BotIds : bot_detail(c, b)
    \/ \E c \in Clients, b \in BotIds, method \in Methods : add_bot(c, b, method)
    \/ \E c \in Clients, b \in BotIds, form \in Forms, method \in Methods :
          edit_bot(c, b, form, method)
    \/ \E c \in Clients, b \in BotIds : delete_bot(c, b)
    \/ \E c \in Clients, b \in BotIds : upvote_bot(c, b)

Spec == Init /\ [][Next]_vars

-----------------------------------------------------------------------------
(* upvote_bot run by request threads, one statement group at a time.  Each  *)
(* request has its own database session: the row it loaded at line 305 and  *)
(* the value it commits at line 323 are its own.                            *)

\* lines 302-311: session check, row lookup, user_id, now, key.
\* fresh records whether the key had no entry when the request started.
upvote_begin(t, c, b) ==
    /\ thr[t].pc = "idle"
    /\ Receive
    /\ IF c \notin DOMAIN session
       THEN /\ resp' = Response(401, "login_required")
            /\ UNCHANGED thr
       ELSE IF FindBot(b) = NoObject
       THEN /\ resp' = Response(404, "not_found")
            /\ UNCHANGED thr
       ELSE /\ thr' = [thr EXCEPT ![t] =
                         [pc |-> "read", bot_id |-> b, upvotes |-> FindBot(b).upvotes,
                          now |-> clock, key |-> <<str(session[c].id), str(b)>>,
                          has_vote |-> FALSE, last_vote |-> 0, status |-> 0,
                          fresh |-> <<str(session[c].id), str(b)>> \notin DOMAIN user_votes]]
            /\ UNCHANGED resp
    /\ UNCHANGED <<clock, session, bots, user_votes, admitted, upvoted, call>>

\* line 313: last_vote = user_votes.get(key)
upvote_read(t) ==
    /\ thr[t].pc = "read"
    /\ thr' = [thr EXCEPT ![t].pc = "check",
                          ![t].has_vote = thr[t].key \in DOMAIN user_votes,
                          ![t].last_vote = IF thr[t].key \in DOMAIN user_votes
                                           THEN user_votes[thr[t].key] ELSE 0]
    /\ UNCHANGED <<clock, session, bots, user_votes, resp, nreq, admitted, upvoted, call>>

\* lines 314-319: the cooldown test on the value read, and the 403
upvote_check(t) ==
    /\ thr[t].pc = "check"
    /\ IF thr[t].has_vote /\ InCooldown(thr[t].last_vote, thr[t].now)
       THEN /\ thr' = [thr EXCEPT ![t].pc = "done", ![t].status = 403]
            /\ resp' = [Response(403, "cooldown") EXCEPT
                          !.msg = cooldown_msg(cooldown_left(thr[t].last_vote, thr[t].now))]
       ELSE /\ thr' = [thr EXCEPT ![t].pc = "write"]
            /\ UNCHANGED resp
    /\ UNCHANGED <<clock, session, bots, user_votes, nreq, admitted, upvoted, call>>

\* lines 321-322: bot.upvotes = (bot.upvotes or 0) + 1 on the loaded row;
\* user_votes[key] = now
upvote_write(t) ==
    /\ thr[t].pc = "write"
    /\ thr' = [thr EXCEPT ![t].pc = "commit", ![t].upvotes = @ + 1]
    /\ user_votes' = RecordVote(user_votes, thr[t].key, thr[t].now)
    /\ UNCHANGED <<clock, session, bots, resp, nreq, admitted, upvoted, call>>

\* lines 323-324: db.session.commit() writes the row's upvotes; the 200
upvote_commit(t) ==
    /\ thr[t].pc = "commit"
    /\ bots' = [bots EXCEPT ![thr[t].bot_id].upvotes = thr[t].upvotes]
    /\ resp' = [Response(200, "upvoted") EXCEPT !.upvotes = thr[t].upvotes]
    /\ thr' = [thr EXCEPT ![t].pc = "done", ![t].status = 200]
    /\ admitted' = admitted \cup {<<thr[t].key[1], thr[t].key[2], thr[t].now>>}
    /\ upvoted' = [upvoted EXCEPT ![thr[t].bot_id] = @ + 1]
    /\ UNCHANGED <<clock, session, user_votes, nreq, call>>

\* the thread is free for the next request
upvote_return(t) ==
    /\ thr[t].pc = "done"
    /\ thr' = [thr EXCEPT ![t] = IdleThread]
    /\ UNCHANGED <<clock, session, bots, user_votes, resp, nreq, admitted, upvoted, call>>

ConcNext ==
    \/ Tick
    \/ \E c \in Clients, u \in UserIds, ok \in BOOLEAN : callback(c, u, ok)
    \/ \E c \in Clients, b \in BotIds, method \in Methods : add_bot(c, b, method)
    \/ \E t \in Threads, c \in Clients, b \in BotIds : upvote_begin(t, c, b)
    \/ \E t \in Threads : upvote_read(t)
    \/ \E t \in Threads : upvote_check(t)
    \/ \E t \in Threads : upvote_write(t)
    \/ \E t \in Threads : upvote_commit(t)
    \/ \E t \in Threads : upvote_return(t)

ConcSpec == Init /\ [][ConcNext]_vars

-----------------------------------------------------------------------------
(* The permission functions called directly on any row and any user *)

AuthIds == UserIds \cup {"U3", "U4"}

BotArgs == {NoObject} \cup
           {NewBot(b, form, User(o)) : b \in BotIds, form \in Forms, o \in AuthIds}

UserArgs == {NoObject} \cup {User(u) : u \in AuthIds}

Evaluate(bot, user) ==
    /\ call' = [fn |-> "can", bot |-> bot, user |-> user,
                is_admin |-> is_admin(user),
                is_bot_owner |-> is_bot_owner(bot, user),
                can_edit |-> can_edit_bot(bot, user),
                can_delete |-> can_delete_bot(bot, user)]
    /\ UNCHANGED <<clock, session, bots, user_votes, resp, nreq, admitted, upvoted, thr>>

AuthNext == \E bot \in BotArgs, user \in UserArgs : Evaluate(bot, user)

AuthSpec == Init /\ [][AuthNext]_vars

-----------------------------------------------------------------------------
(* Properties *)

Abs(x) == IF x < 0 THEN -x ELSE x

\* the key upvote_bot and bot_detail use for client c and bot b
KeyOf(c, b) == <<session[c].id, b>>

\* C1: two upvote requests by the same actor on the same target that run
\* concurrently, neither finding an entry for the key when it started and with
\* request times less than one window apart, are never both admitted: exactly
\* one is answered 200.
C1_ConcurrentUpvotesAdmitOne ==
    \A t1, t2 \in Threads :
        ( /\ t1 # t2
          /\ thr[t1].pc = "done" /\ thr[t2].pc = "done"
          /\ thr[t1].key = thr[t2].key
          /\ thr[t1].fresh /\ thr[t2].fresh
          /\ Abs(thr[t1].now - thr[t2].now) < Window )
        => ((thr[t1].status = 200) # (thr[t2].status = 200))

\* C2: an upvote by a logged-in actor on a listed bot is answered 200 exactly
\* when the map holds no entry for (actor, bot) or now - entry >= the window.
C2_AdmittedIffOutsideWindow ==
    [][ \A c \in DOMAIN session, b \in DOMAIN bots :
          upvote_bot(c, b) =>
            ( (resp'.status = 200) <=>
              ( \/ KeyOf(c, b) \notin DOMAIN user_votes
                \/ clock - user_votes[KeyOf(c, b)] >= Window ) ) ]_vars

\* an upvote was admitted at exactly entry + window
C2_Witness ==
    /\ resp.status = 200 /\ resp.outcome = "upvoted"
    /\ \E u \in UserIds, b \in BotIds :
         /\ <<u, b, 0>> \in admitted /\ <<u, b, Window>> \in admitted
         /\ clock = Window

\* C3: with requests handled one at a time, any two admitted upvotes by the
\* same actor on the same bot are at least one window apart.
C3_AdmittedOneWindowApart ==
    \A x, y \in admitted :
        (x # y /\ x[1] = y[1] /\ x[2] = y[2]) => Abs(x[3] - y[3]) >= Window

\* the same actor was admitted twice on the same bot
C3_Witness ==
    \E x, y \in admitted : x # y /\ x[1] = y[1] /\ x[2] = y[2]

\* C4: the map changes only in an upvote answered 200, which sets exactly its
\* own key to the request time; no key is ever removed; an upvote answered
\* 401, 404 or 403 and the detail view's cooldown query change nothing the
\* next answer depends on.
C4_MapChangesOnlyOnAdmit ==
    [][ /\ (user_votes' # user_votes) =>
             /\ \E c \in DOMAIN session, b \in DOMAIN bots :
                  /\ upvote_bot(c, b)
                  /\ resp'.status = 200
                  /\ DOMAIN user_votes' = DOMAIN user_votes \cup {KeyOf(c, b)}
                  /\ user_votes'[KeyOf(c, b)] = clock
                  /\ \A k \in DOMAIN user_votes \ {KeyOf(c, b)} :
                        user_votes'[k] = user_votes[k]
             /\ DOMAIN user_votes \subseteq DOMAIN user_votes'
             /\ ~ \E c \in Clients, b \in BotIds :
                    upvote_bot(c, b) /\ resp'.status # 200
        /\ (<<clock, session, bots, user_votes>>' # <<clock, session, bots, user_votes>>) =>
             ~ \E c \in Clients, b \in BotIds : bot_detail(c, b) ]_vars

\* an upvote was just admitted while another key's entry stayed as it was
C4_Witness ==
    /\ resp.status = 200 /\ resp.outcome = "upvoted"
    /\ \E k1, k2 \in DOMAIN user_votes :
         /\ k1 # k2
         /\ user_votes[k1] = clock
         /\ user_votes[k2] < clock
         /\ <<k1[1], k1[2], clock>> \in admitted

C6_AbsentArgumentDenied ==
    (call.fn = "can" /\ (call.bot = NoObject \/ call.user = NoObject))
        => (~call.can_edit /\ ~call.can_delete)

\* C7: for a present user and a present bot, can_edit_bot is true exactly
\* when the user's id is the admin id or the bot's owner_id, and
\* can_delete_bot decides the same.
C7_OwnerOrAdmin ==
    (call.fn = "can" /\ call.bot # NoObject /\ call.user # NoObject)
        => /\ call.can_edit <=> ( \/ call.user.id = SITE_ADMIN_ID
                                  \/ call.user.id = call.bot.owner_id )
           /\ call.can_delete = call.can_edit

\* the administrator was allowed on a bot somebody else owns
C7_Witness ==
    /\ call.fn = "can" /\ call.bot # NoObject /\ call.user # NoObject
    /\ call.user.id = SITE_ADMIN_ID
    /\ call.bot.owner_id # call.user.id
    /\ call.can_edit /\ call.can_delete

\* the ordinary fields of a row
Ordinary(bot) ==
    <<bot.description, bot.short_description, bot.prefix, bot.website,
      bot.support_server, bot.invite_link, bot.tags>>

\* the ordinary fields a form submits
Submitted(form) ==
    <<FormGet(form, "description", None), FormGet(form, "short_description", None),
      FormGet(form, "prefix", "!"), FormGet(form, "website", ""),
      FormGet(form, "support_server", ""), FormGet(form, "invite_link", ""), form.tags>>

\* C8: certified and server_count of a listing change only in a request whose
\* session user is the administrator; an edit POSTed by an owner who is not
\* the administrator sets the ordinary fields and leaves both as they were.
C8_AdminOnlyFields ==
    [][ /\ \A b \in DOMAIN bots \cap DOMAIN bots' :
             ( \/ bots'[b].certified # bots[b].certified
               \/ bots'[b].server_count # bots[b].server_count )
             => \E c \in DOMAIN session :
                   /\ session[c].id = SITE_ADMIN_ID
                   /\ \E form \in Forms : edit_bot(c, b, form, "POST")
        /\ \A c \in DOMAIN session, b \in DOMAIN bots :
             ( /\ session[c].id = bots[b].owner_id
               /\ session[c].id # SITE_ADMIN_ID )
             => \A form \in Forms :
                  edit_bot(c, b, form, "POST")
                  => /\ Ordinary(bots'[b]) = Submitted(form)
                     /\ bots'[b].certified = bots[b].certified
                     /\ bots'[b].server_count = bots[b].server_count ]_vars

\* an owner who is not the administrator submitted the form that certifies,
\* and the listing took its description and stayed uncertified
C8_Witness ==
    /\ resp.outcome = "updated"
    /\ DOMAIN bots = {"B1"}
    /\ bots["B1"].description = "d1" /\ bots["B1"].prefix = "?"
    /\ ~bots["B1"].certified /\ bots["B1"].server_count = 0
    /\ bots["B1"].owner_id # SITE_ADMIN_ID
    /\ \A c \in DOMAIN session : session[c].id # SITE_ADMIN_ID

\* C9: an edit or delete request changes or removes a listing only when its
\* session user is present, the bot exists and the user is the bot's owner or
\* the administrator, and then only that listing; otherwise every listing
\* stays as it was.
C9_EditDeleteNeedPermission ==
    [][ (bots' # bots) =>
          \A c \in Clients, b \in BotIds :
            ( \/ delete_bot(c, b)
              \/ \E form \in Forms, method \in Methods : edit_bot(c, b, form, method) )
            => /\ c \in DOMAIN session
               /\ b \in DOMAIN bots
               /\ ( \/ session[c].id = SITE_ADMIN_ID
                    \/ session[c].id = bots[b].owner_id )
               /\ \A o \in DOMAIN bots \ {b} :
                     o \in DOMAIN bots' /\ bots'[o] = bots[o] ]_vars

\* a logged-in user who is neither owner nor administrator was refused
C9_Witness ==
    /\ resp.outcome = "forbidden"
    /\ bots # EmptyDict
    /\ \E c \in DOMAIN session, b \in DOMAIN bots :
         /\ session[c].id # SITE_ADMIN_ID
         /\ session[c].id # bots[b].owner_id

\* C10: the upvote counter of every listing equals the number of upvotes
\* answered 200 on it since it was added.
C10_CounterCountsAdmitted ==
    \A b \in DOMAIN bots : bots[b].upvotes = upvoted[b]

====
